---- MODULE Spec2Model ----
(***************************************************************************)
(* Booking workflow of the fitness studio API: BookingService over the     *)
(* 'classes' and 'bookings' MongoDB collections.                            *)
(*                                                                         *)
(* Strings that are used as identifiers are modelled by what               *)
(* ObjectId.is_valid sees of them: [hex |-> TRUE, n |-> k] is the 24 hex    *)
(* digit string number k, [hex |-> FALSE, ...] is any other string.         *)
(* BSON values keep their type: a string and an ObjectId with the same      *)
(* digits are different values and never match each other in a query.       *)
(* Other strings (emails) are sequences of characters.                      *)
(***************************************************************************)
EXTENDS Integers, Sequences, FiniteSets, TLC

VARIABLES classes, bookings, call, procs, restores, fitness_class, returned

vars ==
  <<classes, bookings, call, procs, restores, fitness_class, returned>>

\* ------------------------------------------------------------------ bounds
MaxBookings == 3
NumProcs == 2
\* entity calls: the largest total_slots and the largest |slots| argument
MaxTotal == 3
MaxSlots == 2

\* ------------------------------------------------------- program constants
MIN_DURATION == 15
SampleDuration == 60

\* ----------------------------------------------------------------- strings
IdStr(k) == [hex |-> TRUE, n |-> k]
BadId == [hex |-> FALSE, n |-> 0]

ObjectIdIsValid(s) == s.hex

\* bson.ObjectId(s) for a well-formed s, and a str stored as it is
ObjectId(s) == [t |-> "oid", hex |-> TRUE, n |-> s.n]
BsonStr(s) == [t |-> "str", hex |-> s.hex, n |-> s.n]
\* Python str(v) of a stored value: the digits, whatever the BSON type
PyStr(v) == [hex |-> v.hex, n |-> v.n]

LowerChar(c) == IF c = "A" THEN "a" ELSE IF c = "B" THEN "b" ELSE c

Lower(s) == [i \in DOMAIN s |-> LowerChar(s[i])]

RECURSIVE LStrip(_)
LStrip(s) == IF s # <<>> /\ Head(s) = " " THEN LStrip(Tail(s)) ELSE s

RECURSIVE RStrip(_)
RStrip(s) ==
  IF s # <<>> /\ s[Len(s)] = " " THEN RStrip(SubSeq(s, 1, Len(s) - 1)) ELSE s

Strip(s) == RStrip(LStrip(s))

\* ------------------------------------------------------------------ inputs
ClassIdInputs == {IdStr(1), IdStr(2), IdStr(9), BadId}
EmailInputs == {<<"a">>, <<"A">>, <<"b">>, <<" ", "a">>, <<" ">>}
BookingIdInputs == {IdStr(k) : k \in 1..(MaxBookings + 1)} \cup {BadId}

\* the requests that are made concurrently
ConcClassIds == {IdStr(1)}
ConcEmails == {<<"a">>, <<"b">>}
ConcBookingIds == {IdStr(k) : k \in 1..MaxBookings}

NoEmail == <<>>

\* ---------------------------------------------------------------- entities
\* FitnessClass.__post_init__: the conditions under which construction raises
FitnessClassInvalid(total, avail, duration) ==
  \/ total < 1
  \/ avail < 0
  \/ avail > total
  \/ duration < MIN_DURATION

\* a FitnessClass object: the two fields its methods read and write
FitnessClass(total, avail) == [total_slots |-> total, available_slots |-> avail]

\* the objects the constructor lets through
ValidFitnessClasses ==
  {fc \in {FitnessClass(t, a) : t \in 0..MaxTotal, a \in 0..MaxTotal} :
     ~FitnessClassInvalid(fc.total_slots, fc.available_slots, SampleDuration)}

\* FitnessClass(...): the dataclass stores its arguments, then __post_init__
\* raises ValueError or lets the object through
FitnessClass_init(total, avail, duration) ==
  IF FitnessClassInvalid(total, avail, duration)
  THEN [raised |-> TRUE, total_slots |-> 0, available_slots |-> 0,
        duration_minutes |-> 0]
  ELSE [raised |-> FALSE, total_slots |-> total, available_slots |-> avail,
        duration_minutes |-> duration]

\* variant: one seat must be left over
can_book_strict(fc, slots_needed) == fc.available_slots > slots_needed

\* FitnessClass.can_book
can_book(fc, slots_needed) == fc.available_slots >= slots_needed

\* FitnessClass.book_slot: the object after the call and the value returned
book_slot(fc, slots) ==
  IF ~can_book(fc, slots)
  THEN [fc |-> fc, ret |-> FALSE]
  ELSE [fc |-> [fc EXCEPT !.available_slots = @ - slots], ret |-> TRUE]

\* FitnessClass.cancel_slot
cancel_slot(fc, slots) ==
  IF fc.available_slots + slots > fc.total_slots
  THEN [fc |-> fc, ret |-> FALSE]
  ELSE [fc |-> [fc EXCEPT !.available_slots = @ + slots], ret |-> TRUE]

\* Booking.__post_init__ for the fields the service passes
BookingInvalid(status, email) ==
  \/ status \notin {"confirmed", "cancelled", "pending"}
  \/ email = <<>>
  \/ Strip(email) = <<>>

\* ------------------------------------------------------- class repository
\* the classes collection: a function from the n of each document's _id
ClassDoc(total, avail) ==
  [total_slots |-> total, available_slots |-> avail,
   duration_minutes |-> SampleDuration]

\* result of a repository call: [kind |-> "none" | "value" | "raise", ...]
ClassResult(kind, err, doc) == [kind |-> kind, err |-> err, doc |-> doc]
NoDoc == ClassDoc(0, 0)

ClassRepository_doc_to_entity(doc) ==
  IF FitnessClassInvalid(doc.total_slots, doc.available_slots,
                         doc.duration_minutes)
  THEN ClassResult("raise", "ValueError", NoDoc)
  ELSE ClassResult("value", "", doc)

get_class_by_id(cls, class_id) ==
  IF ~ObjectIdIsValid(class_id) THEN ClassResult("none", "", NoDoc)
  ELSE IF ObjectId(class_id).n \notin DOMAIN cls
       THEN ClassResult("none", "", NoDoc)
       ELSE ClassRepository_doc_to_entity(cls[ObjectId(class_id).n])

\* [cls |-> the collection afterwards, err |-> "" or the error raised]
update_class_slots(cls, class_id, available_slots) ==
  IF ~ObjectIdIsValid(class_id)
  THEN [cls |-> cls, err |-> "ClassNotFoundError"]
  ELSE IF ObjectId(class_id).n \notin DOMAIN cls
       THEN [cls |-> cls, err |-> "ClassNotFoundError"]
       ELSE [cls |-> [cls EXCEPT ![ObjectId(class_id).n].available_slots =
                                   available_slots],
             err |-> ""]

delete_class(cls, class_id) ==
  IF ~ObjectIdIsValid(class_id)
  THEN [cls |-> cls, err |-> "ClassNotFoundError"]
  ELSE IF ObjectId(class_id).n \notin DOMAIN cls
       THEN [cls |-> cls, err |-> "ClassNotFoundError"]
       ELSE [cls |-> [k \in (DOMAIN cls) \ {ObjectId(class_id).n} |-> cls[k]],
             err |-> ""]

\* ----------------------------------------------------- booking repository
\* the bookings collection: a sequence of documents in insertion order;
\* the document at position i has _id ObjectId number i
BookingDoc(class_id, email, status) ==
  [class_id |-> class_id, client_email |-> email, status |-> status]

\* variant: the unique index was never created
UniqueIndexConflict_missing(bks, doc) == FALSE

\* init_db: the unique index on (class_id, client_email) of bookings
UniqueIndexConflict(bks, doc) ==
  \E i \in DOMAIN bks :
    /\ bks[i].class_id = doc.class_id
    /\ bks[i].client_email = doc.client_email

\* variant: a document that is already there for the pair is replaced
BookingRepository_create_booking_upsert(bks, class_id, client_email, status) ==
  LET doc == BookingDoc(BsonStr(class_id), Strip(client_email), status)
  IN IF UniqueIndexConflict(bks, doc)
     THEN LET i == CHOOSE j \in DOMAIN bks :
                     /\ bks[j].class_id = doc.class_id
                     /\ bks[j].client_email = doc.client_email
          IN [bks |-> [bks EXCEPT ![i] = doc], err |-> "", id |-> i]
     ELSE [bks |-> Append(bks, doc), err |-> "", id |-> Len(bks) + 1]

\* variant: the document is written before the index refuses it
BookingRepository_create_booking_kept(bks, class_id, client_email, status) ==
  LET doc == BookingDoc(BsonStr(class_id), Strip(client_email), status)
  IN IF UniqueIndexConflict(bks, doc)
     THEN [bks |-> Append(bks, doc), err |-> "DuplicateBookingError",
           id |-> 0]
     ELSE [bks |-> Append(bks, doc), err |-> "", id |-> Len(bks) + 1]

\* BookingRepository.create_booking: the class_id is stored as the string it
\* was given, the email stripped
BookingRepository_create_booking(bks, class_id, client_email, status) ==
  LET doc == BookingDoc(BsonStr(class_id), Strip(client_email), status)
  IN IF UniqueIndexConflict(bks, doc)
     THEN [bks |-> bks, err |-> "DuplicateBookingError", id |-> 0]
     ELSE [bks |-> Append(bks, doc), err |-> "", id |-> Len(bks) + 1]

check_duplicate_booking(bks, class_id, client_email) ==
  IF ~ObjectIdIsValid(class_id) THEN FALSE
  ELSE \E i \in DOMAIN bks :
         /\ bks[i].class_id = ObjectId(class_id)
         /\ bks[i].client_email = Lower(client_email)
         /\ bks[i].status = "confirmed"

\* get_booking_by_id: 0 when absent, else the position of the document
get_booking_by_id(bks, booking_id) ==
  IF ~ObjectIdIsValid(booking_id) THEN 0
  ELSE IF ObjectId(booking_id).n \in DOMAIN bks
       THEN ObjectId(booking_id).n ELSE 0

\* BookingRepository._doc_to_entity: class_id=str(doc['class_id'])
BookingEntityClassId(doc) == PyStr(doc.class_id)

\* variant: the filter names the _id only
CancelFilterMatches_any_status(doc) == TRUE

\* the filter of update_one in cancel_booking, on the document with that _id
CancelFilterMatches(doc) == doc.status = "confirmed"

\* variant: matched_count is not looked at
BookingRepository_cancel_booking_unchecked(bks, booking_id) ==
  IF ~ObjectIdIsValid(booking_id) THEN [bks |-> bks, ok |-> FALSE]
  ELSE IF /\ ObjectId(booking_id).n \in DOMAIN bks
          /\ CancelFilterMatches(bks[ObjectId(booking_id).n])
       THEN [bks |-> [bks EXCEPT ![ObjectId(booking_id).n].status =
                                   "cancelled"],
             ok |-> TRUE]
       ELSE [bks |-> bks, ok |-> TRUE]

BookingRepository_cancel_booking(bks, booking_id) ==
  IF ~ObjectIdIsValid(booking_id) THEN [bks |-> bks, ok |-> FALSE]
  ELSE IF /\ ObjectId(booking_id).n \in DOMAIN bks
          /\ CancelFilterMatches(bks[ObjectId(booking_id).n])
       THEN [bks |-> [bks EXCEPT ![ObjectId(booking_id).n].status =
                                   "cancelled"],
             ok |-> TRUE]
       ELSE [bks |-> bks, ok |-> FALSE]

\* --------------------------------------------------------- booking service
\* what a call leaves behind: the collections, the value returned or the
\* error raised, the id of the booking created, and whether it wrote an
\* incremented available_slots
Outcome(cls, bks, result, id) ==
  [classes |-> cls, bookings |-> bks, result |-> result, id |-> id,
   restored |-> FALSE]

\* variant: the comparison is strict
NoSlotsLeft_strict(avail) == avail < 0

\* if fitness_class.available_slots <= 0
NoSlotsLeft(avail) == avail <= 0

\* variant: the seat is not taken off
SlotsAfterBooking_same(avail) == avail

\* new_slots = fitness_class.available_slots - 1
SlotsAfterBooking(avail) == avail - 1

\* variant: two seats are given back
SlotsAfterCancel_two(avail) == avail + 2

\* variant: the seat is not given back
SlotsAfterCancel_none(avail) == avail

\* new_available_slots = fitness_class.available_slots + 1
SlotsAfterCancel(avail) == avail + 1

\* variant: the lookup result is not tested
BookingAbsent_ignored(b) == FALSE

\* if not booking
BookingAbsent(b) == b = 0

\* variant: the class_id format is not checked by the service
create_booking_no_format_check(cls, bks, class_id, client_email) ==
  LET fc == get_class_by_id(cls, class_id) IN
  IF fc.kind = "raise" THEN Outcome(cls, bks, fc.err, 0)
  ELSE IF fc.kind = "none" THEN Outcome(cls, bks, "ClassNotFoundError", 0)
  ELSE IF NoSlotsLeft(fc.doc.available_slots)
       THEN Outcome(cls, bks, "ValidationError", 0)
  ELSE IF check_duplicate_booking(bks, class_id, client_email)
       THEN Outcome(cls, bks, "DuplicateBookingError", 0)
  ELSE IF BookingInvalid("confirmed", client_email)
       THEN Outcome(cls, bks, "ValueError", 0)
  ELSE
    LET ins == BookingRepository_create_booking(bks, class_id, client_email,
                                                "confirmed") IN
    IF ins.err # "" THEN Outcome(cls, bks, ins.err, 0)
    ELSE
      LET upd == update_class_slots(cls, class_id,
                   SlotsAfterBooking(fc.doc.available_slots)) IN
      IF upd.err # "" THEN Outcome(cls, ins.bks, upd.err, 0)
      ELSE Outcome(upd.cls, ins.bks, "ok", ins.id)

\* BookingService.create_booking run to completion on (cls, bks)
create_booking(cls, bks, class_id, client_email) ==
  IF ~ObjectIdIsValid(class_id)
  THEN Outcome(cls, bks, "ValidationError", 0)
  ELSE
    LET fc == get_class_by_id(cls, class_id) IN
    IF fc.kind = "raise" THEN Outcome(cls, bks, fc.err, 0)
    ELSE IF fc.kind = "none" THEN Outcome(cls, bks, "ClassNotFoundError", 0)
    ELSE IF NoSlotsLeft(fc.doc.available_slots)
         THEN Outcome(cls, bks, "ValidationError", 0)
    ELSE IF check_duplicate_booking(bks, class_id, client_email)
         THEN Outcome(cls, bks, "DuplicateBookingError", 0)
    ELSE IF BookingInvalid("confirmed", client_email)
         THEN Outcome(cls, bks, "ValueError", 0)
    ELSE
      LET ins == BookingRepository_create_booking(bks, class_id, client_email,
                                                  "confirmed") IN
      IF ins.err # "" THEN Outcome(cls, ins.bks, ins.err, 0)
      ELSE
        LET upd == update_class_slots(cls, class_id,
                     SlotsAfterBooking(fc.doc.available_slots)) IN
        IF upd.err # "" THEN Outcome(cls, ins.bks, upd.err, 0)
        ELSE Outcome(upd.cls, ins.bks, "ok", ins.id)

\* BookingService.cancel_booking run to completion on (cls, bks)
cancel_booking(cls, bks, booking_id) ==
  LET b == get_booking_by_id(bks, booking_id) IN
  IF BookingAbsent(b) THEN Outcome(cls, bks, "BookingNotFoundError", 0)
  ELSE
    LET can == BookingRepository_cancel_booking(bks, booking_id) IN
    IF ~can.ok THEN Outcome(cls, bks, "false", 0)
    ELSE
      LET fc == get_class_by_id(cls, BookingEntityClassId(bks[b])) IN
      IF fc.kind = "raise" THEN Outcome(cls, can.bks, fc.err, 0)
      ELSE IF fc.kind = "none" THEN Outcome(cls, can.bks, "true", 0)
      ELSE
        LET upd == update_class_slots(cls, BookingEntityClassId(bks[b]),
                     SlotsAfterCancel(fc.doc.available_slots)) IN
        IF upd.err # "" THEN Outcome(cls, can.bks, upd.err, 0)
        ELSE [Outcome(upd.cls, can.bks, "true", 0) EXCEPT !.restored = TRUE]

\* ----------------------------------------------------------------- queries
\* $lookup from classes, localField class_id, foreignField _id: the classes
\* whose _id equals the stored class_id, type included
Lookup(cls, doc) == {k \in DOMAIN cls : ObjectId(IdStr(k)) = doc.class_id}

\* the display fields (name, datetime_ist, instructor) of class k, and what
\* class_info.get(...) gives when the document has no class_info
ClassInfo(k) == <<"class", k>>
None == <<"None">>

\* BookingRepository._doc_to_entity on document i after $lookup and $unwind
BookingRepository_doc_to_entity(cls, bks, i) ==
  [id |-> IdStr(i), class_id |-> PyStr(bks[i].class_id),
   client_email |-> bks[i].client_email, status |-> bks[i].status,
   class_info |-> IF Lookup(cls, bks[i]) = {} THEN None
                  ELSE ClassInfo(CHOOSE k \in Lookup(cls, bks[i]) : TRUE)]

\* BookingService.get_booking_by_id: None, or the entity
BookingService_get_booking_by_id(cls, bks, booking_id) ==
  IF BookingAbsent(get_booking_by_id(bks, booking_id))
  THEN [result |-> "None", found |-> None]
  ELSE [result |-> "ok",
        found |-> BookingRepository_doc_to_entity(cls, bks,
                    get_booking_by_id(bks, booking_id))]

\* BookingRepository.get_bookings_by_email: the $match stage
EmailQueryMatches(doc, client_email, include_cancelled) ==
  /\ doc.client_email = Lower(client_email)
  /\ include_cancelled \/ doc.status # "cancelled"

\* BookingRepository.get_bookings_by_email: the ids of the entities returned
BookingRepository_get_bookings_by_email(bks, client_email, include_cancelled) ==
  {i \in DOMAIN bks : EmailQueryMatches(bks[i], client_email,
                                        include_cancelled)}

\* BookingService.get_bookings_by_email
get_bookings_by_email(bks, client_email, include_cancelled) ==
  IF client_email = <<>> \/ Strip(client_email) = <<>>
  THEN [result |-> "ValidationError", found |-> {}]
  ELSE [result |-> "ok",
        found |-> BookingRepository_get_bookings_by_email(bks,
                    Lower(Strip(client_email)), include_cancelled)]

\* sum(1 for b in all_bookings if b.status == status)
CountStatus(bks, status) ==
  Cardinality({i \in DOMAIN bks : bks[i].status = status})

\* variant: cancelled bookings are left out of the total
TotalBookings_active(bks) == Len(bks) - CountStatus(bks, "cancelled")

\* len(all_bookings), get_all_bookings(limit=-1) returning every document
TotalBookings(bks) == Len(bks)

\* count / total_bookings * 100 if total_bookings > 0 else 0, as a fraction
Rate(count, total) ==
  IF total > 0 THEN [num |-> count * 100, den |-> total]
  ELSE [num |-> 0, den |-> 1]

\* BookingService.get_booking_stats
get_booking_stats(bks) ==
  [total_bookings |-> TotalBookings(bks),
   confirmed_bookings |-> CountStatus(bks, "confirmed"),
   cancelled_bookings |-> CountStatus(bks, "cancelled"),
   pending_bookings |-> CountStatus(bks, "pending"),
   unique_clients |-> Cardinality({bks[i].client_email : i \in DOMAIN bks}),
   confirmation_rate |-> Rate(CountStatus(bks, "confirmed"),
                              TotalBookings(bks)),
   cancellation_rate |-> Rate(CountStatus(bks, "cancelled"),
                              TotalBookings(bks))]

\* ------------------------------------------------------------------- state
\* the last call that ran to completion, with the collections it started on
CallRecord(op, class_id, email, booking_id, result, id, cls, bks) ==
  [op |-> op, class_id |-> class_id, client_email |-> email,
   booking_id |-> booking_id, result |-> result, id |-> id,
   pre_classes |-> cls, pre_bookings |-> bks]

\* a request in progress (interleaved executions only): its arguments and
\* its locals (read_slots: fitness_class.available_slots; read_status:
\* booking.status; id: created_booking.id)
IdleProc ==
  [pc |-> "idle", op |-> "none", class_id |-> BadId, client_email |-> NoEmail,
   booking_id |-> BadId, read_slots |-> 0, read_status |-> "", id |-> 0,
   result |-> ""]

\* _insert_sample_data: every class starts with available_slots = total_slots
InitClasses == (1 :> ClassDoc(1, 1)) @@ (2 :> ClassDoc(2, 2))

\* no FitnessClass object is held outside the repositories
NoFitnessClass == FitnessClass(0, 0)

\* the last method called on the object: its argument, the value it
\* returned and the object before the call
Returned(op, slots, ret, pre) ==
  [op |-> op, slots |-> slots, ret |-> ret, pre |-> pre]

InitStore ==
  /\ classes = InitClasses
  /\ bookings = <<>>
  /\ call = CallRecord("none", BadId, NoEmail, BadId, "", 0, InitClasses, <<>>)
  /\ procs = [p \in 1..NumProcs |-> IdleProc]
  /\ restores = <<>>

Init ==
  /\ InitStore
  /\ fitness_class = NoFitnessClass
  /\ returned = Returned("none", 0, FALSE, NoFitnessClass)

\* ------------------------------------------- calls executed one at a time
CreateBooking(class_id, client_email) ==
  LET out == create_booking(classes, bookings, class_id, client_email) IN
  /\ Len(bookings) < MaxBookings
  /\ classes' = out.classes
  /\ bookings' = out.bookings
  /\ call' = CallRecord("create", class_id, client_email, BadId, out.result,
                        out.id, classes, bookings)
  /\ restores' = IF out.id # 0 THEN Append(restores, 0) ELSE restores
  /\ UNCHANGED <<procs, fitness_class, returned>>

CancelBooking(booking_id) ==
  LET out == cancel_booking(classes, bookings, booking_id) IN
  /\ classes' = out.classes
  /\ bookings' = out.bookings
  /\ call' = CallRecord("cancel", BadId, NoEmail, booking_id, out.result, 0,
                        classes, bookings)
  /\ restores' = IF out.restored
                 THEN [restores EXCEPT ![ObjectId(booking_id).n] = @ + 1]
                 ELSE restores
  /\ UNCHANGED <<procs, fitness_class, returned>>

DeleteClass(class_id) ==
  LET out == delete_class(classes, class_id) IN
  /\ out.err = ""
  /\ classes' = out.cls
  /\ call' = CallRecord("delete", class_id, NoEmail, BadId, "true", 0,
                        classes, bookings)
  /\ UNCHANGED <<bookings, procs, restores, fitness_class, returned>>

Next ==
  \/ \E c \in ClassIdInputs, e \in EmailInputs : CreateBooking(c, e)
  \/ \E b \in BookingIdInputs : CancelBooking(b)
  \/ \E c \in ClassIdInputs : DeleteClass(c)

Spec == Init /\ [][Next]_vars

\* ---------------------------------------------- calls that only read
\* the record of a query: the call and what it returned
QueryRecord(op, email, booking_id, include_cancelled, out) ==
  CallRecord(op, BadId, email, booking_id, out.result, 0, classes, bookings)
    @@ [include_cancelled |-> include_cancelled, found |-> out.found]

GetBookingsByEmail(client_email, include_cancelled) ==
  /\ call' = QueryRecord("get_bookings_by_email", client_email, BadId,
                         include_cancelled,
                         get_bookings_by_email(bookings, client_email,
                                               include_cancelled))
  /\ UNCHANGED <<classes, bookings, procs, restores, fitness_class, returned>>

GetBookingById(booking_id) ==
  /\ call' = QueryRecord("get_booking_by_id", NoEmail, booking_id, FALSE,
                         BookingService_get_booking_by_id(classes, bookings,
                                                          booking_id))
  /\ UNCHANGED <<classes, bookings, procs, restores, fitness_class, returned>>

GetBookingStats ==
  /\ call' = QueryRecord("get_booking_stats", NoEmail, BadId, FALSE,
                         [result |-> "ok",
                          found |-> get_booking_stats(bookings)])
  /\ UNCHANGED <<classes, bookings, procs, restores, fitness_class, returned>>

\* the calls that fill the ledger the queries read
QueryClassIds == {IdStr(2)}
QueryEmails == {<<"a">>, <<"A">>, <<"b">>}

NextQuery ==
  \/ \E c \in QueryClassIds, e \in QueryEmails : CreateBooking(c, e)
  \/ \E b \in ConcBookingIds : CancelBooking(b)
  \/ \E c \in QueryClassIds : DeleteClass(c)
  \/ \E e \in EmailInputs, c \in BOOLEAN : GetBookingsByEmail(e, c)
  \/ \E b \in BookingIdInputs : GetBookingById(b)
  \/ GetBookingStats

SpecQuery == Init /\ [][NextQuery]_vars

\* ------------------------------------------------ interleaved executions
\* each repository call of a request is one atomic step; the steps of
\* different requests interleave
Procs == 1..NumProcs

Goto(p, pc) == procs' = [procs EXCEPT ![p].pc = pc]
Finish(p, result) ==
  procs' = [procs EXCEPT ![p].pc = "done", ![p].result = result]

StartCreate(p, class_id, client_email) ==
  /\ procs[p].pc = "idle"
  /\ Len(bookings) < MaxBookings
  /\ procs' = [procs EXCEPT ![p] =
       [IdleProc EXCEPT !.pc = "create_get_class", !.op = "create",
                        !.class_id = class_id, !.client_email = client_email]]
  /\ UNCHANGED <<classes, bookings, call, restores, fitness_class, returned>>

StartCancel(p, booking_id) ==
  /\ procs[p].pc = "idle"
  /\ procs' = [procs EXCEPT ![p] =
       [IdleProc EXCEPT !.pc = "cancel_get_booking", !.op = "cancel",
                        !.booking_id = booking_id]]
  /\ UNCHANGED <<classes, bookings, call, restores, fitness_class, returned>>

\* booking_service.py 30-38
CreateGetClass(p) ==
  /\ procs[p].pc = "create_get_class"
  /\ LET fc == get_class_by_id(classes, procs[p].class_id) IN
       IF ~ObjectIdIsValid(procs[p].class_id) THEN Finish(p, "ValidationError")
       ELSE IF fc.kind = "raise" THEN Finish(p, fc.err)
       ELSE IF fc.kind = "none" THEN Finish(p, "ClassNotFoundError")
       ELSE IF NoSlotsLeft(fc.doc.available_slots)
            THEN Finish(p, "ValidationError")
       ELSE procs' = [procs EXCEPT ![p].pc = "create_check_duplicate",
                                   ![p].read_slots = fc.doc.available_slots]
  /\ UNCHANGED <<classes, bookings, call, restores, fitness_class, returned>>

\* booking_service.py 40-52
CreateCheckDuplicate(p) ==
  /\ procs[p].pc = "create_check_duplicate"
  /\ IF check_duplicate_booking(bookings, procs[p].class_id,
                                procs[p].client_email)
     THEN Finish(p, "DuplicateBookingError")
     ELSE IF BookingInvalid("confirmed", procs[p].client_email)
          THEN Finish(p, "ValueError")
          ELSE Goto(p, "create_insert")
  /\ UNCHANGED <<classes, bookings, call, restores, fitness_class, returned>>

\* booking_service.py 54
CreateInsert(p) ==
  /\ procs[p].pc = "create_insert"
  /\ LET ins == BookingRepository_create_booking(bookings, procs[p].class_id,
                  procs[p].client_email, "confirmed") IN
       /\ bookings' = ins.bks
       /\ restores' = IF ins.err = "" THEN Append(restores, 0) ELSE restores
       /\ IF ins.err # "" THEN Finish(p, ins.err)
          ELSE procs' = [procs EXCEPT ![p].pc = "create_update_slots",
                                      ![p].id = ins.id]
  /\ UNCHANGED <<classes, call, fitness_class, returned>>

\* variant: a failed slot write takes the booking back
CreateUpdateSlots_rollback(p) ==
  /\ procs[p].pc = "create_update_slots"
  /\ LET upd == update_class_slots(classes, procs[p].class_id,
                                   SlotsAfterBooking(procs[p].read_slots)) IN
       /\ classes' = upd.cls
       /\ bookings' = IF upd.err # ""
                      THEN [bookings EXCEPT ![procs[p].id].status = "cancelled"]
                      ELSE bookings
       /\ IF upd.err # "" THEN Finish(p, upd.err) ELSE Finish(p, "ok")
  /\ UNCHANGED <<call, restores, fitness_class, returned>>

\* booking_service.py 56-60
CreateUpdateSlots(p) ==
  /\ procs[p].pc = "create_update_slots"
  /\ LET upd == update_class_slots(classes, procs[p].class_id,
                                   SlotsAfterBooking(procs[p].read_slots)) IN
       /\ classes' = upd.cls
       /\ IF upd.err # "" THEN Finish(p, upd.err) ELSE Finish(p, "ok")
  /\ UNCHANGED <<bookings, call, restores, fitness_class, returned>>

\* booking_service.py 91-93
CancelGetBooking(p) ==
  /\ procs[p].pc = "cancel_get_booking"
  /\ LET b == get_booking_by_id(bookings, procs[p].booking_id) IN
       IF BookingAbsent(b) THEN Finish(p, "BookingNotFoundError")
       ELSE procs' = [procs EXCEPT ![p].pc = "cancel_update_status",
                        ![p].class_id = BookingEntityClassId(bookings[b]),
                        ![p].read_status = bookings[b].status]
  /\ UNCHANGED <<classes, bookings, call, restores, fitness_class, returned>>

\* booking_service.py 94-95
CancelUpdateStatus(p) ==
  /\ procs[p].pc = "cancel_update_status"
  /\ LET can == BookingRepository_cancel_booking(bookings,
                                                 procs[p].booking_id) IN
       /\ bookings' = can.bks
       /\ IF can.ok THEN Goto(p, "cancel_get_class") ELSE Finish(p, "false")
  /\ UNCHANGED <<classes, call, restores, fitness_class, returned>>

\* booking_service.py 96-97
CancelGetClass(p) ==
  /\ procs[p].pc = "cancel_get_class"
  /\ LET fc == get_class_by_id(classes, procs[p].class_id) IN
       IF fc.kind = "raise" THEN Finish(p, fc.err)
       ELSE IF fc.kind = "none" THEN Finish(p, "true")
       ELSE procs' = [procs EXCEPT ![p].pc = "cancel_update_slots",
                                   ![p].read_slots = fc.doc.available_slots]
  /\ UNCHANGED <<classes, bookings, call, restores, fitness_class, returned>>

\* booking_service.py 98-103
CancelUpdateSlots(p) ==
  /\ procs[p].pc = "cancel_update_slots"
  /\ LET upd == update_class_slots(classes, procs[p].class_id,
                                   SlotsAfterCancel(procs[p].read_slots)) IN
       /\ classes' = upd.cls
       /\ restores' = IF upd.err = ""
                      THEN [restores EXCEPT
                              ![ObjectId(procs[p].booking_id).n] = @ + 1]
                      ELSE restores
       /\ IF upd.err # "" THEN Finish(p, upd.err) ELSE Finish(p, "true")
  /\ UNCHANGED <<bookings, call, fitness_class, returned>>

\* the request has answered; its execution context takes the next request
Return(p) ==
  /\ procs[p].pc = "done"
  /\ procs' = [procs EXCEPT ![p] = IdleProc]
  /\ UNCHANGED <<classes, bookings, call, restores, fitness_class, returned>>

ConcDeleteClass(class_id) ==
  LET out == delete_class(classes, class_id) IN
  /\ out.err = ""
  /\ classes' = out.cls
  /\ UNCHANGED <<bookings, call, procs, restores, fitness_class, returned>>

NextConc ==
  \/ \E p \in Procs, c \in ConcClassIds, e \in ConcEmails :
       StartCreate(p, c, e)
  \/ \E p \in Procs, b \in ConcBookingIds : StartCancel(p, b)
  \/ \E p \in Procs : CreateGetClass(p)
  \/ \E p \in Procs : CreateCheckDuplicate(p)
  \/ \E p \in Procs : CreateInsert(p)
  \/ \E p \in Procs : CreateUpdateSlots(p)
  \/ \E p \in Procs : CancelGetBooking(p)
  \/ \E p \in Procs : CancelUpdateStatus(p)
  \/ \E p \in Procs : CancelGetClass(p)
  \/ \E p \in Procs : CancelUpdateSlots(p)
  \/ \E p \in Procs : Return(p)
  \/ \E c \in ConcClassIds : ConcDeleteClass(c)

SpecConc == Init /\ [][NextConc]_vars

\* ------------------------------------------------------ storage failures
\* update_class_slots, except PyMongoError: the driver raises in update_one,
\* the record is not written, the repository raises DatabaseError and the
\* service lets it through
UpdateSlotsFailure(p) ==
  /\ procs[p].pc \in {"create_update_slots", "cancel_update_slots"}
  /\ ObjectIdIsValid(procs[p].class_id)
  /\ Finish(p, "DatabaseError")
  /\ UNCHANGED <<classes, bookings, call, restores, fitness_class, returned>>

NextFail ==
  \/ NextConc
  \/ \E p \in Procs : UpdateSlotsFailure(p)

SpecFail == Init /\ [][NextFail]_vars

\* ------------------------------------------- calls on a FitnessClass object
SlotsArgs == (0 - MaxSlots)..MaxSlots

\* a FitnessClass constructed with valid fields
InitEntity ==
  /\ InitStore
  /\ fitness_class \in ValidFitnessClasses
  /\ returned = Returned("none", 0, FALSE, NoFitnessClass)

\* the count stays within reach of the arguments
WithinReach ==
  /\ fitness_class.available_slots >= 0 - MaxTotal
  /\ fitness_class.available_slots <= MaxTotal + MaxTotal

CanBook(slots) ==
  /\ returned' = Returned("can_book", slots, can_book(fitness_class, slots),
                          fitness_class)
  /\ UNCHANGED <<classes, bookings, call, procs, restores, fitness_class>>

BookSlot(slots) ==
  LET out == book_slot(fitness_class, slots) IN
  /\ WithinReach
  /\ fitness_class' = out.fc
  /\ returned' = Returned("book_slot", slots, out.ret, fitness_class)
  /\ UNCHANGED <<classes, bookings, call, procs, restores>>

CancelSlot(slots) ==
  LET out == cancel_slot(fitness_class, slots) IN
  /\ WithinReach
  /\ fitness_class' = out.fc
  /\ returned' = Returned("cancel_slot", slots, out.ret, fitness_class)
  /\ UNCHANGED <<classes, bookings, call, procs, restores>>

\* the values MIN_CLASS_DURATION is configured to (its default, and a larger
\* floor), and the durations and slot counts a caller passes
ConfiguredMinima == {MIN_DURATION, SampleDuration}
DurationArgs ==
  {MIN_DURATION - 1, MIN_DURATION, SampleDuration - 1, SampleDuration}
TotalArgs == 0..MaxTotal
AvailableArgs == (0 - 1)..(MaxTotal + 1)

\* FitnessClass(total_slots, available_slots, duration_minutes) while the
\* environment sets MIN_CLASS_DURATION to configured: the call's arguments
\* and its outcome; the object the methods act on is another one
Construct(total, avail, duration, configured) ==
  /\ returned' =
       [Returned("__init__", 0, FALSE, fitness_class) EXCEPT
          !.ret = ~FitnessClass_init(total, avail, duration).raised]
       @@ [args |-> [total_slots |-> total, available_slots |-> avail,
                     duration_minutes |-> duration,
                     MIN_CLASS_DURATION |-> configured],
           obj |-> FitnessClass_init(total, avail, duration)]
  /\ UNCHANGED <<classes, bookings, call, procs, restores, fitness_class>>

NextEntity ==
  \/ \E n \in SlotsArgs : CanBook(n)
  \/ \E n \in SlotsArgs : BookSlot(n)
  \/ \E n \in SlotsArgs : CancelSlot(n)
  \/ \E t \in TotalArgs, a \in AvailableArgs, d \in DurationArgs,
        m \in ConfiguredMinima : Construct(t, a, d, m)

SpecEntity == InitEntity /\ [][NextEntity]_vars

\* ================================================================= claims
\* the class document named by an id string is in the collection
ClassExists(cls, class_id) ==
  ObjectIdIsValid(class_id) /\ class_id.n \in DOMAIN cls

\* the ledger holds a booking with that status made for (class_id, email)
BookingFor(bks, class_id, client_email, status) ==
  \E i \in DOMAIN bks :
    /\ PyStr(bks[i].class_id) = class_id
    /\ bks[i].client_email = Strip(client_email)
    /\ bks[i].status = status

\* the booking a cancel call names, 0 when the ledger has none
Named(bks, booking_id) ==
  IF booking_id.hex /\ booking_id.n \in DOMAIN bks THEN booking_id.n ELSE 0

CreateCalled == call.op = "create"
CancelCalled == call.op = "cancel"
NothingChanged ==
  classes = call.pre_classes /\ bookings = call.pre_bookings

\* C1: with calls executed one at a time from full classes and an empty
\* ledger, every persisted class has 0 <= available_slots <= total_slots.
C1_SlotsInRange ==
  \A k \in DOMAIN classes :
    /\ 0 <= classes[k].available_slots
    /\ classes[k].available_slots <= classes[k].total_slots

\* a booking took the last seat of a class after an earlier cancellation
C1_Witness ==
  /\ CreateCalled /\ call.result = "ok"
  /\ classes[call.class_id.n].available_slots = 0
  /\ \E i \in DOMAIN bookings : bookings[i].status = "cancelled"

C3_RebookAfterCancel ==
  (/\ CreateCalled
   /\ BookingFor(call.pre_bookings, call.class_id, call.client_email,
                 "cancelled")
   /\ ~BookingFor(call.pre_bookings, call.class_id, call.client_email,
                  "confirmed")
   /\ ClassExists(call.pre_classes, call.class_id)
   /\ call.pre_classes[call.class_id.n].available_slots > 0)
    => /\ call.result = "ok"
       /\ Len(bookings) = Len(call.pre_bookings) + 1
       /\ bookings[Len(bookings)].status = "confirmed"

\* C4: create_booking on an existing class with available_slots = 0 fails
\* with ValidationError, inserts nothing and leaves available_slots at 0.
C4_FullClassRejected ==
  (/\ CreateCalled
   /\ ClassExists(call.pre_classes, call.class_id)
   /\ call.pre_classes[call.class_id.n].available_slots = 0)
    => /\ call.result = "ValidationError"
       /\ NothingChanged
       /\ classes[call.class_id.n].available_slots = 0

\* a client without a booking was turned away from a full class
C4_Witness ==
  /\ CreateCalled
  /\ ClassExists(call.pre_classes, call.class_id)
  /\ call.pre_classes[call.class_id.n].available_slots = 0
  /\ ~BookingFor(call.pre_bookings, call.class_id, call.client_email,
                 "confirmed")
  /\ ~BookingInvalid("confirmed", call.client_email)
  /\ call.result = "ValidationError"

\* C5: the error of create_booking is that of the first failing check in
\* the order: malformed id, class absent, no seat left, confirmed booking
\* already held.
C5_CheckOrder ==
  CreateCalled =>
    IF ~ObjectIdIsValid(call.class_id)
    THEN call.result = "ValidationError"
    ELSE IF ~ClassExists(call.pre_classes, call.class_id)
    THEN call.result = "ClassNotFoundError"
    ELSE IF call.pre_classes[call.class_id.n].available_slots <= 0
    THEN call.result = "ValidationError"
    ELSE BookingFor(call.pre_bookings, call.class_id, call.client_email,
                    "confirmed")
           => call.result = "DuplicateBookingError"

\* the holder of a confirmed booking in a class that is now full was
\* answered with ValidationError
C5_Witness ==
  /\ CreateCalled
  /\ ClassExists(call.pre_classes, call.class_id)
  /\ call.pre_classes[call.class_id.n].available_slots = 0
  /\ BookingFor(call.pre_bookings, call.class_id, call.client_email,
                "confirmed")
  /\ call.result = "ValidationError"

\* C6: no two confirmed bookings share (class_id, client_email), also when
\* the requests interleave.
C6_OneConfirmedPerPair ==
  \A i, j \in DOMAIN bookings :
    (/\ i # j
     /\ bookings[i].status = "confirmed"
     /\ bookings[j].status = "confirmed"
     /\ bookings[i].class_id = bookings[j].class_id)
      => bookings[i].client_email # bookings[j].client_email

\* two requests for the same pair were in progress together: one has
\* inserted and not yet written the slots, the other was refused meanwhile
C6_Witness ==
  \E p, q \in Procs :
    /\ p # q
    /\ procs[p].op = "create" /\ procs[q].op = "create"
    /\ procs[p].class_id = procs[q].class_id
    /\ procs[p].client_email = procs[q].client_email
    /\ procs[p].pc = "create_update_slots"
    /\ procs[q].pc = "done"
    /\ procs[q].result = "DuplicateBookingError"

\* C7: cancel_booking on a booking that an earlier cancel_booking cancelled
\* returns false without raising and restores no seat: over the two calls
\* available_slots was incremented once.
C7_SecondCancel ==
  (/\ CancelCalled
   /\ Named(call.pre_bookings, call.booking_id) # 0
   /\ call.pre_bookings[Named(call.pre_bookings, call.booking_id)].status
        = "cancelled")
    => LET b == Named(call.pre_bookings, call.booking_id) IN
       /\ call.result = "false"
       /\ NothingChanged
       /\ restores[b] <= 1
       /\ ClassExists(classes, PyStr(bookings[b].class_id)) => restores[b] = 1

\* a booking of a class that still exists was cancelled twice
C7_Witness ==
  /\ CancelCalled
  /\ Named(call.pre_bookings, call.booking_id) # 0
  /\ call.pre_bookings[Named(call.pre_bookings, call.booking_id)].status
       = "cancelled"
  /\ call.result = "false"
  /\ restores[Named(call.pre_bookings, call.booking_id)] = 1

\* C8: cancel_booking with an id that matches no booking, malformed ids
\* included, raises BookingNotFoundError and changes nothing.
C8_UnknownBooking ==
  (CancelCalled /\ Named(call.pre_bookings, call.booking_id) = 0)
    => (call.result = "BookingNotFoundError" /\ NothingChanged)

\* a malformed id was given while the ledger held a confirmed booking
C8_Witness ==
  /\ CancelCalled
  /\ ~ObjectIdIsValid(call.booking_id)
  /\ \E i \in DOMAIN bookings : bookings[i].status = "confirmed"
  /\ call.result = "BookingNotFoundError"

C10_BoundedRelease ==
  \A p \in Procs :
    (/\ procs[p].op = "cancel"
     /\ procs[p].pc = "done"
     /\ procs[p].result = "true")
      => /\ bookings[procs[p].booking_id.n].status = "cancelled"
         /\ (restores[procs[p].booking_id.n] > 0
             /\ ClassExists(classes, procs[p].class_id))
              => procs[p].read_slots + 1
                   <= classes[procs[p].class_id.n].total_slots

\* C11: a successful create_booking returns a confirmed booking whose id no
\* other booking has, adds exactly that booking to the ledger and lowers the
\* class's available_slots by exactly 1.
C11_SuccessfulCreate ==
  (CreateCalled /\ call.result = "ok")
    => /\ Len(bookings) = Len(call.pre_bookings) + 1
       /\ \A i \in DOMAIN call.pre_bookings : bookings[i] = call.pre_bookings[i]
       /\ call.id = Len(bookings)
       /\ call.id \notin DOMAIN call.pre_bookings
       /\ bookings[call.id].status = "confirmed"
       /\ PyStr(bookings[call.id].class_id) = call.class_id
       /\ DOMAIN classes = DOMAIN call.pre_classes
       /\ \A k \in DOMAIN classes :
            classes[k].available_slots =
              IF k = call.class_id.n
              THEN call.pre_classes[k].available_slots - 1
              ELSE call.pre_classes[k].available_slots

\* a second booking was made in a class that already had one
C11_Witness ==
  /\ CreateCalled /\ call.result = "ok"
  /\ Len(call.pre_bookings) > 0
  /\ call.pre_classes[call.class_id.n].available_slots = 1
  /\ call.pre_classes[call.class_id.n].total_slots = 2

\* C12: a cancelled booking never becomes confirmed or pending again, and
\* no booking ever leaves the ledger.
C12_CancelIsFinal ==
  [][\A i \in DOMAIN bookings :
       /\ i \in DOMAIN bookings'
       /\ bookings'[i].class_id = bookings[i].class_id
       /\ bookings'[i].client_email = bookings[i].client_email
       /\ bookings[i].status = "cancelled"
            => bookings'[i].status = "cancelled"]_vars

\* the client of a cancelled booking asked for the same class again and the
\* cancelled booking is still in the ledger, cancelled
C12_Witness ==
  /\ CreateCalled
  /\ BookingFor(call.pre_bookings, call.class_id, call.client_email,
                "cancelled")
  /\ BookingFor(bookings, call.class_id, call.client_email, "cancelled")
  /\ ClassExists(call.pre_classes, call.class_id)
  /\ call.pre_classes[call.class_id.n].available_slots > 0

\* C13: in a class with total_slots = 1, a successful booking leaves
\* available_slots at 0, another client is then refused with
\* ValidationError, cancelling the booking brings available_slots back to 1
\* and the other client's create_booking then succeeds.
C13_OneSeatScenario ==
  LET k == call.class_id.n
      b == Named(call.pre_bookings, call.booking_id)
      OneSeat(c) == ClassExists(call.pre_classes, c)
                    /\ call.pre_classes[c.n].total_slots = 1
      Newcomer == /\ ~BookingInvalid("confirmed", call.client_email)
                  /\ \A i \in DOMAIN call.pre_bookings :
                       PyStr(call.pre_bookings[i].class_id) = call.class_id
                         => call.pre_bookings[i].client_email
                              # Strip(call.client_email)
  IN
  /\ (CreateCalled /\ OneSeat(call.class_id) /\ call.result = "ok")
       => classes[k].available_slots = 0
  /\ (/\ CreateCalled /\ OneSeat(call.class_id) /\ Newcomer
      /\ \E i \in DOMAIN call.pre_bookings :
           /\ PyStr(call.pre_bookings[i].class_id) = call.class_id
           /\ call.pre_bookings[i].status = "confirmed")
       => (call.result = "ValidationError" /\ NothingChanged)
  /\ (/\ CancelCalled /\ call.result = "true"
      /\ OneSeat(PyStr(call.pre_bookings[b].class_id)))
       => classes[call.pre_bookings[b].class_id.n].available_slots = 1
  /\ (/\ CreateCalled /\ OneSeat(call.class_id) /\ Newcomer
      /\ \A i \in DOMAIN call.pre_bookings :
           PyStr(call.pre_bookings[i].class_id) = call.class_id
             => call.pre_bookings[i].status = "cancelled")
       => (call.result = "ok" /\ classes[k].available_slots = 0)

\* the one seat was booked, given back by a cancellation, and then booked by
\* another client
C13_Witness ==
  /\ CreateCalled /\ call.result = "ok"
  /\ call.pre_classes[call.class_id.n].total_slots = 1
  /\ \E i \in DOMAIN call.pre_bookings :
       /\ PyStr(call.pre_bookings[i].class_id) = call.class_id
       /\ call.pre_bookings[i].status = "cancelled"
       /\ call.pre_bookings[i].client_email # Strip(call.client_email)

\* C14: with create_booking and cancel_booking calls on one class interleaved
\* at their repository calls, every persisted class record keeps
\* 0 <= available_slots <= total_slots.
C14_InterleavedSlotsInRange ==
  \A c \in ConcClassIds :
    ClassExists(classes, c)
      => classes[c.n].available_slots \in 0..classes[c.n].total_slots

\* two create_booking calls by different clients on one class that both read
\* available_slots = 1, both inserted and both wrote their slot count, with no
\* other booking made and none cancelled since
RacedForLastSeat(p, q) ==
  /\ p # q
  /\ \A r \in {p, q} : /\ procs[r].op = "create"
                        /\ procs[r].pc = "done"
                        /\ procs[r].result = "ok"
                        /\ procs[r].read_slots = 1
  /\ procs[p].class_id = procs[q].class_id
  /\ procs[p].client_email # procs[q].client_email
  /\ ClassExists(classes, procs[p].class_id)
  /\ DOMAIN bookings = {procs[p].id, procs[q].id}
  /\ \A i \in DOMAIN bookings : bookings[i].status = "confirmed"

\* C15 as stated: two concurrent create_booking calls by different clients on
\* a class with one remaining seat both pass the available_slots > 0 check,
\* both write their decrement, and the record then stores -1.
C15_Original ==
  \A p, q \in Procs :
    RacedForLastSeat(p, q)
      => classes[procs[p].class_id.n].available_slots = -1

\* C15: both calls pass the check and both insert a confirmed booking, but
\* each writes the count it read minus one: the record stores 0 after both,
\* every count a create_booking writes is at least 0, and no persisted
\* available_slots is ever negative.
C15_LostDecrement ==
  /\ \A k \in DOMAIN classes : classes[k].available_slots >= 0
  /\ \A p \in Procs :
       (procs[p].op = "create"
        /\ (procs[p].pc = "create_update_slots" \/ procs[p].result = "ok"))
         => SlotsAfterBooking(procs[p].read_slots) >= 0
  /\ \A p, q \in Procs :
       RacedForLastSeat(p, q)
         => classes[procs[p].class_id.n].available_slots = 0

\* both clients hold a confirmed booking for the one seat
C15_Witness ==
  \E p, q \in Procs :
    /\ RacedForLastSeat(p, q)
    /\ classes[procs[p].class_id.n].total_slots = 1
    /\ classes[procs[p].class_id.n].available_slots = 0

\* two cancel_booking calls for one booking that both read it as confirmed
\* and have both answered
CancelledTogether(p, q) ==
  /\ p # q
  /\ \A r \in {p, q} : /\ procs[r].op = "cancel"
                        /\ procs[r].pc = "done"
                        /\ procs[r].read_status = "confirmed"
  /\ procs[p].booking_id = procs[q].booking_id

\* C16: of two concurrent cancel_booking calls for the same confirmed booking
\* exactly one returns true and the other false, and the pair increments the
\* class's available_slots at most once.
C16_OneCancelWins ==
  \A p, q \in Procs :
    CancelledTogether(p, q)
      => /\ {procs[p].result, procs[q].result} = {"true", "false"}
         /\ restores[procs[p].booking_id.n] <= 1

\* the calls in progress are all the calls made since start-up, and all have
\* answered: every booking was inserted by one of them, every cancelled
\* booking was cancelled by one of them, and no class was deleted
OnlyTheseCalls ==
  /\ \A p \in Procs : procs[p].pc = "done"
  /\ DOMAIN classes = DOMAIN InitClasses
  /\ \A i \in DOMAIN bookings :
       /\ \E p \in Procs : procs[p].op = "create" /\ procs[p].id = i
       /\ bookings[i].status = "cancelled"
            => \E p \in Procs :
                 /\ procs[p].op = "cancel"
                 /\ procs[p].booking_id = IdStr(i)
                 /\ procs[p].result \notin {"false", "BookingNotFoundError"}

\* the call of request p executed alone on (cls, bks)
CallAlone(p, cls, bks) ==
  IF procs[p].op = "create"
  THEN create_booking(cls, bks, procs[p].class_id, procs[p].client_email)
  ELSE cancel_booking(cls, bks, procs[p].booking_id)

\* the calls of the requests in order, one after the other
RECURSIVE Serial(_, _, _)
Serial(order, cls, bks) ==
  IF order = <<>>
  THEN [classes |-> cls, bookings |-> bks, results |-> <<>>]
  ELSE LET out == CallAlone(Head(order), cls, bks)
           rest == Serial(Tail(order), out.classes, out.bookings)
       IN [rest EXCEPT !.results = <<out.result>> \o @]

Orders ==
  {o \in [1..NumProcs -> Procs] :
     \A i, j \in 1..NumProcs : o[i] = o[j] => i = j}

ConfirmedPairs(bks) ==
  {<<bks[i].class_id, bks[i].client_email>> :
     i \in {j \in DOMAIN bks : bks[j].status = "confirmed"}}

\* C17: the outcome of concurrently executed create_booking / cancel_booking
\* calls (final available_slots, set of confirmed bookings, return values and
\* errors) is the outcome of the same calls executed one after the other in
\* some order.
C17_Serializable ==
  OnlyTheseCalls
    => \E o \in Orders :
         LET s == Serial(o, InitClasses, <<>>) IN
         /\ s.classes = classes
         /\ ConfirmedPairs(s.bookings) = ConfirmedPairs(bookings)
         /\ \A i \in 1..NumProcs : s.results[i] = procs[o[i]].result

\* C18: when the slot write of create_booking fails after the insert (the
\* store raises, or the class record is no longer there), create_booking
\* raises DatabaseError or ClassNotFoundError, the inserted booking stays in
\* the ledger as it is and no class record changes.
C18_NoRollback ==
  [][\A p \in Procs :
       (/\ procs[p].pc = "create_update_slots"
        /\ procs'[p].pc = "done"
        /\ procs'[p].result # "ok")
         => /\ procs'[p].result \in {"DatabaseError", "ClassNotFoundError"}
            /\ bookings' = bookings
            /\ classes' = classes
            /\ procs[p].id \in DOMAIN bookings'
            /\ bookings'[procs[p].id].class_id = BsonStr(procs[p].class_id)
            /\ bookings'[procs[p].id].client_email
                 = Strip(procs[p].client_email)]_vars

\* a create_booking that raised from the slot write: its booking is
\* confirmed and the class still shows the seat as free
C18_Witness ==
  \E p \in Procs :
    /\ procs[p].op = "create"
    /\ procs[p].pc = "done"
    /\ procs[p].result = "DatabaseError"
    /\ procs[p].id \in DOMAIN bookings
    /\ bookings[procs[p].id].status = "confirmed"
    /\ ClassExists(classes, procs[p].class_id)
    /\ classes[procs[p].class_id.n].available_slots = procs[p].read_slots
    /\ classes[procs[p].class_id.n].total_slots = 1

\* C19: a FitnessClass constructed with valid fields keeps
\* 0 <= available_slots <= total_slots, and its total_slots, through any
\* sequence of book_slot and cancel_slot calls.
C19_EntitySlotsInRange ==
  /\ fitness_class.available_slots >= 0
  /\ fitness_class.available_slots <= fitness_class.total_slots
  /\ returned.op # "none"
       => fitness_class.total_slots = returned.pre.total_slots

\* C20: book_slot(slots) returns true and lowers available_slots by slots
\* when available_slots >= slots, otherwise returns false and changes
\* nothing; cancel_slot(slots) returns true and raises available_slots by
\* slots when available_slots + slots <= total_slots, otherwise returns false
\* and changes nothing; can_book changes nothing.
C20_BookAndCancelSlot ==
  LET pre == returned.pre
      n == returned.slots
  IN
  /\ returned.op = "book_slot"
       => IF pre.available_slots >= n
          THEN /\ returned.ret
               /\ fitness_class =
                    [pre EXCEPT !.available_slots = pre.available_slots - n]
          ELSE ~returned.ret /\ fitness_class = pre
  /\ returned.op = "cancel_slot"
       => IF pre.available_slots + n <= pre.total_slots
          THEN /\ returned.ret
               /\ fitness_class =
                    [pre EXCEPT !.available_slots = pre.available_slots + n]
          ELSE ~returned.ret /\ fitness_class = pre
  /\ returned.op = "can_book"
       => /\ fitness_class = pre
          /\ returned.ret = (pre.available_slots >= n)

\* book_slot took every seat that was left
C20_Witness ==
  /\ returned.op = "book_slot"
  /\ returned.slots = returned.pre.available_slots
  /\ returned.slots > 1
  /\ returned.ret
  /\ fitness_class.available_slots = 0

\* C21: constructing a FitnessClass raises exactly when total_slots < 1, or
\* available_slots < 0, or available_slots > total_slots, or the duration is
\* below the configured minimum duration; otherwise the object holds the
\* given values unchanged.
C21_ConstructorValidation ==
  returned.op = "__init__"
    => LET a == returned.args IN
       /\ returned.obj.raised
            <=> \/ a.total_slots < 1
                \/ a.available_slots < 0
                \/ a.available_slots > a.total_slots
                \/ a.duration_minutes < a.MIN_CLASS_DURATION
       /\ ~returned.obj.raised
            => /\ returned.obj.total_slots = a.total_slots
               /\ returned.obj.available_slots = a.available_slots
               /\ returned.obj.duration_minutes = a.duration_minutes

\* C30: for every integer slots argument, book_slot never raises
\* available_slots, cancel_slot never lowers it, and a call on an object
\* within [0, total_slots] leaves it within [0, total_slots].
C30_NoReverseMoves ==
  LET pre == returned.pre IN
  /\ returned.op = "book_slot"
       => fitness_class.available_slots <= pre.available_slots
  /\ returned.op = "cancel_slot"
       => fitness_class.available_slots >= pre.available_slots
  /\ (returned.op \in {"book_slot", "cancel_slot"}
      /\ pre.available_slots \in 0..pre.total_slots)
       => fitness_class.available_slots \in 0..fitness_class.total_slots

\* the lookup email equals the booking's email up to letter case and
\* surrounding whitespace
SameClient(doc, client_email) ==
  Lower(Strip(doc.client_email)) = Lower(Strip(client_email))

EmailQueried == call.op = "get_bookings_by_email"

\* C22: get_bookings_by_email(e', include_cancelled) returns every booking
\* whose email equals e' up to letter case and surrounding whitespace and
\* that is not cancelled, or cancelled with include_cancelled true.
C22_LookupFindsBooking ==
  EmailQueried
    => \A i \in DOMAIN bookings :
         (/\ SameClient(bookings[i], call.client_email)
          /\ call.include_cancelled \/ bookings[i].status # "cancelled")
           => call.result = "ok" /\ i \in call.found

\* C23: without include_cancelled, get_bookings_by_email returns no
\* cancelled booking and no booking of another client; with include_cancelled
\* it returns the same bookings plus exactly the cancelled bookings of that
\* email.
C23_CancelledFilter ==
  (EmailQueried /\ call.result = "ok")
    => LET active == get_bookings_by_email(bookings, call.client_email,
                                           FALSE).found
       IN IF call.include_cancelled
          THEN call.found = active \cup
                 {i \in DOMAIN bookings :
                    /\ bookings[i].status = "cancelled"
                    /\ SameClient(bookings[i], call.client_email)}
          ELSE \A i \in call.found :
                 /\ bookings[i].status # "cancelled"
                 /\ SameClient(bookings[i], call.client_email)

IdQueried == call.op = "get_booking_by_id"

\* C24: get_booking_by_id returns absent only when the booking does not
\* exist; for an existing booking it returns the booking with the display
\* fields of its class when the class exists, and with null display fields
\* when the class is gone.
C24_Enrichment ==
  IdQueried
    => LET b == Named(bookings, call.booking_id) IN
       IF b = 0 THEN call.result = "None"
       ELSE /\ call.result = "ok"
            /\ call.found.id = call.booking_id
            /\ call.found.status = bookings[b].status
            /\ call.found.class_info =
                 IF ClassExists(classes, PyStr(bookings[b].class_id))
                 THEN ClassInfo(bookings[b].class_id.n)
                 ELSE None

StatsQueried == call.op = "get_booking_stats"

\* C25: get_booking_stats returns, on every ledger, total_bookings = the
\* number of bookings of all statuses and per-status counts equal to the
\* number of bookings with that status; on the empty ledger the total and
\* both rates are 0.
C25_Stats ==
  StatsQueried
    => /\ call.result = "ok"
       /\ call.found.total_bookings = Len(bookings)
       /\ \A st \in {"confirmed", "cancelled", "pending"} :
            LET n == Cardinality({i \in DOMAIN bookings :
                                   bookings[i].status = st})
            IN /\ st = "confirmed" => call.found.confirmed_bookings = n
               /\ st = "cancelled" => call.found.cancelled_bookings = n
               /\ st = "pending" => call.found.pending_bookings = n
       /\ call.found.total_bookings
            = call.found.confirmed_bookings + call.found.cancelled_bookings
                + call.found.pending_bookings
       /\ bookings = <<>>
            => /\ call.found.total_bookings = 0
               /\ call.found.confirmation_rate.num = 0
               /\ call.found.cancellation_rate.num = 0

\* statistics over a ledger that holds confirmed and cancelled bookings
C25_Witness ==
  /\ StatsQueried
  /\ call.found.confirmed_bookings > 0
  /\ call.found.cancelled_bookings > 0
  /\ call.found.unique_clients > 1

\* the confirmed bookings that reference class k
ConfirmedFor(k) ==
  {i \in DOMAIN bookings : /\ bookings[i].status = "confirmed"
                           /\ PyStr(bookings[i].class_id) = IdStr(k)}

\* C26: with calls executed one at a time and no class deleted, every class
\* has available_slots + its number of confirmed bookings = total_slots.
C26_SeatsAccounted ==
  DOMAIN classes = DOMAIN InitClasses
    => \A k \in DOMAIN classes :
         classes[k].available_slots + Cardinality(ConfirmedFor(k))
           = classes[k].total_slots

\* a cancellation gave a seat back in a class that keeps another booking
C26_Witness ==
  /\ CancelCalled /\ call.result = "true"
  /\ DOMAIN classes = DOMAIN InitClasses
  /\ \E k \in DOMAIN classes :
       /\ Cardinality(ConfirmedFor(k)) = 1
       /\ classes[k].available_slots = 1
       /\ PyStr(bookings[call.booking_id.n].class_id) = IdStr(k)

\* C27: in every state reached by interleaved create_booking calls, the
\* confirmed bookings of a class are not more than its total_slots.
C27_NoOverbooking ==
  \A k \in DOMAIN classes :
    Cardinality(ConfirmedFor(k)) <= classes[k].total_slots

\* C28: a create_booking that ends in ValidationError, ClassNotFoundError or
\* DuplicateBookingError leaves the ledger and every class as they were.
C28_FailedCreateChangesNothing ==
  (CreateCalled /\ call.result \in {"ValidationError", "ClassNotFoundError",
                                     "DuplicateBookingError"})
    => NothingChanged

\* the insert was refused by the ledger after the service's checks passed
C28_Witness ==
  /\ CreateCalled /\ call.result = "DuplicateBookingError"
  /\ ClassExists(classes, call.class_id)
  /\ classes[call.class_id.n].available_slots > 0
  /\ BookingFor(bookings, call.class_id, call.client_email, "confirmed")

\* C29: duplicate prevention compares emails without regard to letter case:
\* while a confirmed booking for (class_id, e) exists, a create_booking for
\* the class with an email that differs from e only in letter case gives no
\* second confirmed booking.
C29_CaseInsensitiveDuplicate ==
  (CreateCalled
   /\ \E i \in DOMAIN call.pre_bookings :
        /\ call.pre_bookings[i].status = "confirmed"
        /\ PyStr(call.pre_bookings[i].class_id) = call.class_id
        /\ Lower(call.pre_bookings[i].client_email) = Lower(call.client_email))
    => call.result # "ok" /\ bookings = call.pre_bookings

====
